---------------------------- MODULE Spec2Model ----------------------------
(***************************************************************************)
(* A model of modules/updaters/CachyOS.py: the CachyOS updater, which      *)
(* fetches a directory listing, extracts the latest version from it,       *)
(* derives the download link and checks a downloaded image against the     *)
(* published sha256 manifest.                                              *)
(*                                                                         *)
(* Python strings are TLA+ strings.  An optional value (None or a value)   *)
(* is a tuple of length 0 or 1, so None differs from every string,         *)
(* the string "None" included.  The outcome of a call is a record: a       *)
(* returned value or a raised exception with its class and message.        *)
(***************************************************************************)
EXTENDS Naturals, Sequences, FiniteSets, TLC

VARIABLES
    inst,         \* each CachyOS object: its construction and its attributes
    linkCache,    \* the @cache of _get_download_link, keyed by self
    versionCache, \* the @cache of _get_latest_version, keyed by self
    netlog,       \* the URLs each object has sent a GET to
    last,         \* the latest call: the method, the object, the outcome
    listing,    \* _get_latest_version: the links select() finds in the page
    extracted,  \* _get_latest_version: the outcome of the call, or Pending
    hashText,   \* _parse_sha256_hash: the argument hash_file_content
    fileName,   \* _parse_sha256_hash: the argument filename
    parsed      \* _parse_sha256_hash: the outcome of the call, or Pending

resolver == <<inst, linkCache, versionCache, netlog, last>>
functions == <<listing, extracted, hashText, fileName, parsed>>
vars == <<inst, linkCache, versionCache, netlog, last,
          listing, extracted, hashText, fileName, parsed>>

-----------------------------------------------------------------------------
(* Python values and call outcomes *)

None == <<>>
Some(v) == <<v>>

Pending == [kind |-> "pending", exc |-> "", msg |-> "", value |-> None]
Return(v) == [kind |-> "return", exc |-> "", msg |-> "", value |-> Some(v)]
Raise(e, m) == [kind |-> "raise", exc |-> e, msg |-> m, value |-> None]

-----------------------------------------------------------------------------
(* str helpers *)

Char(s, i) == SubSeq(s, i, i)

\* str.splitlines() line boundaries (those a TLA+ string can hold).
IsLineBreak(c) == c \in {"\n", "\r", "\f"}

\* str.split() without arguments splits on runs of whitespace.
IsSpace(c) == c \in {" ", "\t", "\n", "\r", "\f"}

RECURSIVE SplitLinesFrom(_, _, _)
SplitLinesFrom(s, i, start) ==
    IF i > Len(s)
    THEN IF start <= Len(s) THEN <<SubSeq(s, start, Len(s))>> ELSE <<>>
    ELSE IF IsLineBreak(Char(s, i))
         THEN LET n == IF Char(s, i) = "\r" /\ i < Len(s) /\ Char(s, i + 1) = "\n"
                       THEN 2 ELSE 1
              IN  <<SubSeq(s, start, i - 1)>> \o SplitLinesFrom(s, i + n, i + n)
         ELSE SplitLinesFrom(s, i + 1, start)

\* str.splitlines(): the lines without their line breaks; a trailing line
\* break opens no empty last line.
SplitLines(s) == SplitLinesFrom(s, 1, 1)

RECURSIVE SplitFrom(_, _, _)
\* start = 0: between tokens; start > 0: inside the token that began at start.
SplitFrom(s, i, start) ==
    IF i > Len(s)
    THEN IF start > 0 THEN <<SubSeq(s, start, Len(s))>> ELSE <<>>
    ELSE IF IsSpace(Char(s, i))
         THEN IF start > 0
              THEN <<SubSeq(s, start, i - 1)>> \o SplitFrom(s, i + 1, 0)
              ELSE SplitFrom(s, i + 1, 0)
         ELSE SplitFrom(s, i + 1, IF start > 0 THEN start ELSE i)

\* str.split(): the whitespace-separated tokens, none of them empty.
Split(s) == SplitFrom(s, 1, 0)

UpperCase == "ABCDEFGHIJKLMNOPQRSTUVWXYZ"
LowerCase == "abcdefghijklmnopqrstuvwxyz"

LowerChar(c) ==
    IF \E i \in 1..Len(UpperCase) : Char(UpperCase, i) = c
    THEN Char(LowerCase, CHOOSE i \in 1..Len(UpperCase) : Char(UpperCase, i) = c)
    ELSE c

RECURSIVE Lower(_)
\* str.lower()
Lower(s) == IF s = "" THEN "" ELSE LowerChar(Char(s, 1)) \o Lower(Tail(s))

\* Printable ASCII characters in code point order (the double quote, the
\* backslash and the backtick left out).
Ascii ==
    " !#$%&'()*+,-./0123456789:;<=>?@" \o UpperCase \o "[]^_" \o LowerCase \o "{|}~"

Ord(c) == CHOOSE i \in 1..Len(Ascii) : Char(Ascii, i) = c

\* A comparison that ranks the longer string higher, as a numeric reading
\* of the version would ("v10" above "v2").
StrGreaterLongerFirst(a, b) ==
    \/ Len(a) > Len(b)
    \/ Len(a) = Len(b) /\ \E k \in 1..Len(a) :
           /\ SubSeq(a, 1, k - 1) = SubSeq(b, 1, k - 1)
           /\ Ord(Char(a, k)) > Ord(Char(b, k))

RECURSIVE StrGreater(_, _)
\* a > b for two str: code point order on the first difference, a proper
\* prefix being the smaller.
StrGreater(a, b) ==
    IF a = "" THEN FALSE
    ELSE IF b = "" THEN TRUE
    ELSE IF Char(a, 1) = Char(b, 1) THEN StrGreater(Tail(a), Tail(b))
    ELSE Ord(Char(a, 1)) > Ord(Char(b, 1))

IsDigit(c) == c \in {"0", "1", "2", "3", "4", "5", "6", "7", "8", "9"}

-----------------------------------------------------------------------------
(* CachyOS._parse_sha256_hash *)

\* The test of line 61 without the exact token count.
LineMatchesAnyCount(line, filename) ==
    LET parts == Split(line)
    IN  Len(parts) >= 2 /\ parts[2] = filename

\* The test of line 61 on one line of the manifest.
LineMatches(line, filename) ==
    LET parts == Split(line)
    IN  Len(parts) = 2 /\ parts[2] = filename

RECURSIVE ParseLoop(_, _)
ParseLoop(lines, filename) ==
    IF lines = <<>>
    THEN Raise("ValueError", "Hash not found for the specified file: " \o filename)
    ELSE IF LineMatches(Head(lines), filename)
         THEN Return(Split(Head(lines))[1])
         ELSE ParseLoop(Tail(lines), filename)

_parse_sha256_hash(hash_file_content, filename) ==
    ParseLoop(SplitLines(hash_file_content), filename)

-----------------------------------------------------------------------------
(* CachyOS._get_latest_version *)

\* re.match(r"\d{6}/", href) on a str: the pattern is anchored at the start
\* of href only.
ReMatch(href) ==
    /\ Len(href) >= 7
    /\ \A i \in 1..6 : IsDigit(Char(href, i))
    /\ Char(href, 7) = "/"

RECURSIVE Comprehension(_)
\* Lines 73-77: the titles of the links whose href matches, in the order of
\* the links.  link.get() gives None for a missing attribute, and re.match
\* raises TypeError on None.
Comprehension(links) ==
    IF links = <<>> THEN Return(<<>>)
    ELSE LET link == Head(links)
         IN  IF link.href = None
             THEN Raise("TypeError", "expected string or bytes-like object")
             ELSE LET rest == Comprehension(Tail(links))
                  IN  IF rest.kind = "raise" THEN rest
                      ELSE IF ReMatch(link.href[1])
                           THEN Return(<<link.title>> \o rest.value[1])
                           ELSE rest

RECURSIVE MaxLoop(_, _)
MaxLoop(cur, rest) ==
    IF rest = <<>> THEN Return(cur)
    ELSE LET x == Head(rest)
         IN  IF cur = None \/ x = None
             THEN Raise("TypeError", "comparison not supported between instances of str and NoneType")
             ELSE IF StrGreater(x[1], cur[1])
                  THEN MaxLoop(x, Tail(rest))
                  ELSE MaxLoop(cur, Tail(rest))

\* max() of a non-empty list: the first of the greatest items; comparing
\* None with anything raises TypeError.
PyMax(items) == MaxLoop(Head(items), Tail(items))

\* The body of _get_latest_version on the links select() returned.
_get_latest_version(download_links) ==
    IF download_links = <<>>
    THEN Raise("VersionNotFoundError", "We were not able to parse the download page")
    ELSE LET version_numbers == Comprehension(download_links)
         IN  IF version_numbers.kind = "raise" THEN version_numbers
             ELSE IF version_numbers.value[1] = <<>>
                  THEN Raise("VersionNotFoundError",
                             "No valid version numbers found in the download links")
                  ELSE PyMax(version_numbers.value[1])

-----------------------------------------------------------------------------
(* The module constants and the CachyOS object *)

\* DOMAIN in the source, a reserved word here.
CDN_DOMAIN == "https://cdn.cachyos.org"
DOWNLOAD_PAGE_URL == CDN_DOMAIN \o "/ISO"
valid_editions == {"desktop", "handheld"}
HTTP_OK == 200

Instances == {"r1", "r2"}

\* An object before its construction.
NoInstance ==
    [status |-> "none", arg |-> "", edition |-> "", error |-> "",
     response |-> None, page |-> None]

\* str(x) inside an f-string: None is written "None".
Fmt(v) == IF v = None THEN "None" ELSE v[1]

\* The file name of lines 50 and 55.
IsoName(edition, version) ==
    "cachyos-" \o edition \o "-linux-" \o Fmt(version) \o ".iso"

\* The f-string of line 50.
LinkOf(edition, version) ==
    DOWNLOAD_PAGE_URL \o "/" \o edition \o "/" \o Fmt(version) \o "/"
        \o IsoName(edition, version)

\* __init__ that sends the GET before it validates the edition.
CachyOS_init_FetchFirst(edition_arg, response) ==
    LET edition == Lower(edition_arg)
        url == DOWNLOAD_PAGE_URL \o "/" \o edition
        self == [NoInstance EXCEPT !.arg = edition_arg, !.edition = edition,
                                   !.response = Some(response.status)]
    IN  IF response.status # HTTP_OK
        THEN [self |-> [self EXCEPT !.status = "failed", !.error = "ConnectionError"],
              gets |-> <<url>>]
        ELSE IF edition \notin valid_editions
             THEN [self |-> [self EXCEPT !.status = "failed", !.error = "ValueError"],
                   gets |-> <<url>>]
             ELSE [self |-> [self EXCEPT !.status = "ready",
                                         !.page = Some(response.links)],
                   gets |-> <<url>>]

\* __init__ without the status check of line 42.
CachyOS_init_NoStatusCheck(edition_arg, response) ==
    LET edition == Lower(edition_arg)
        url == DOWNLOAD_PAGE_URL \o "/" \o edition
        self == [NoInstance EXCEPT !.arg = edition_arg, !.edition = edition]
    IN  IF edition \notin valid_editions
        THEN [self |-> [self EXCEPT !.status = "failed", !.error = "ValueError"],
              gets |-> <<>>]
        ELSE [self |-> [self EXCEPT !.status = "ready",
                                    !.response = Some(response.status),
                                    !.page = Some(response.links)],
              gets |-> <<url>>]

\* CachyOS.__init__: the object it leaves and the GETs it sends.  A raised
\* exception leaves the caller without an object (status "failed").
\* GenericUpdater.__init__ (line 36) handles the file path only.
CachyOS_init(edition_arg, response) ==
    LET edition == Lower(edition_arg)
        url == DOWNLOAD_PAGE_URL \o "/" \o edition
        self == [NoInstance EXCEPT !.arg = edition_arg, !.edition = edition]
    IN  IF edition \notin valid_editions
        THEN [self |-> [self EXCEPT !.status = "failed", !.error = "ValueError"],
              gets |-> <<>>]
        ELSE IF response.status # HTTP_OK
             THEN [self |-> [self EXCEPT !.status = "failed",
                                         !.error = "ConnectionError",
                                         !.response = Some(response.status)],
                   gets |-> <<url>>]
             ELSE [self |-> [self EXCEPT !.status = "ready",
                                         !.response = Some(response.status),
                                         !.page = Some(response.links)],
                   gets |-> <<url>>]

\* A cached value returned by functools.cache.
Hit(cached) == [kind |-> "return", exc |-> "", msg |-> "", value |-> cached]

\* _get_latest_version behind its @cache: a call whose result is cached
\* returns it without running the body; a raised exception is not cached.
\* ran counts the runs of the body.
CachedLatestVersion(i, vc) ==
    IF vc[i] # None
    THEN [out |-> Hit(vc[i]), vc |-> vc, ran |-> 0]
    ELSE LET r == _get_latest_version(inst[i].page[1])
         IN  [out |-> r,
              vc |-> IF r.kind = "return" THEN [vc EXCEPT ![i] = r.value] ELSE vc,
              ran |-> 1]

\* A cache of _get_download_link that ignores self: one entry for all objects.
CachedDownloadLinkShared(i, lc, vc) ==
    IF \E j \in Instances : lc[j] # None
    THEN [out |-> Hit(lc[CHOOSE j \in Instances : lc[j] # None]),
          lc |-> lc, vc |-> vc, ran |-> 0]
    ELSE LET v == CachedLatestVersion(i, vc)
         IN  IF v.out.kind = "raise"
             THEN [out |-> v.out, lc |-> lc, vc |-> v.vc, ran |-> v.ran]
             ELSE LET url == LinkOf(inst[i].edition, v.out.value[1])
                  IN  [out |-> Return(url), lc |-> [lc EXCEPT ![i] = Some(url)],
                       vc |-> v.vc, ran |-> v.ran]

\* _get_download_link behind its @cache.
CachedDownloadLink(i, lc, vc) ==
    IF lc[i] # None
    THEN [out |-> Hit(lc[i]), lc |-> lc, vc |-> vc, ran |-> 0]
    ELSE LET v == CachedLatestVersion(i, vc)
         IN  IF v.out.kind = "raise"
             THEN [out |-> v.out, lc |-> lc, vc |-> v.vc, ran |-> v.ran]
             ELSE LET url == LinkOf(inst[i].edition, v.out.value[1])
                  IN  [out |-> Return(url), lc |-> [lc EXCEPT ![i] = Some(url)],
                       vc |-> v.vc, ran |-> v.ran]

\* modules.utils.sha256_hash_check: whether the hash of the file is the
\* expected one.
sha256_hash_check(file_hash, expected) == file_hash = expected

\* check_integrity that turns a failed lookup into "integrity failed".
check_integrity_Swallow(i, response, file_hash) ==
    LET d == CachedDownloadLink(i, linkCache, versionCache)
    IN  IF d.out.kind = "raise"
        THEN [out |-> Return(FALSE), lc |-> d.lc, vc |-> d.vc, ran |-> d.ran,
              gets |-> <<>>, matched |-> None]
        ELSE LET v == CachedLatestVersion(i, d.vc)
                 h == _parse_sha256_hash(response.text,
                                         IsoName(inst[i].edition, v.out.value[1]))
             IN  [out |-> IF h.kind = "raise" THEN Return(FALSE)
                          ELSE Return(sha256_hash_check(file_hash, h.value[1])),
                  lc |-> d.lc, vc |-> v.vc, ran |-> d.ran + v.ran,
                  gets |-> <<d.out.value[1] \o ".sha256">>,
                  matched |-> Some(response.text)]

\* CachyOS.check_integrity: the outcome, the caches after the call, the GETs
\* sent and the text handed to _parse_sha256_hash (None when it is not
\* reached).  The status of the manifest response is not read.
check_integrity(i, response, file_hash) ==
    LET d == CachedDownloadLink(i, linkCache, versionCache)
    IN  IF d.out.kind = "raise"
        THEN [out |-> d.out, lc |-> d.lc, vc |-> d.vc, ran |-> d.ran,
              gets |-> <<>>, matched |-> None]
        ELSE LET sha256_url == d.out.value[1] \o ".sha256"
                 sha256_sums == response.text
                 v == CachedLatestVersion(i, d.vc)
             IN  IF v.out.kind = "raise"
                 THEN [out |-> v.out, lc |-> d.lc, vc |-> v.vc,
                       ran |-> d.ran + v.ran, gets |-> <<sha256_url>>,
                       matched |-> None]
                 ELSE LET sha256_sum ==
                              _parse_sha256_hash(sha256_sums,
                                  IsoName(inst[i].edition, v.out.value[1]))
                      IN  [out |-> IF sha256_sum.kind = "raise" THEN sha256_sum
                                   ELSE Return(sha256_hash_check(file_hash,
                                                   sha256_sum.value[1])),
                           lc |-> d.lc, vc |-> v.vc, ran |-> d.ran + v.ran,
                           gets |-> <<sha256_url>>,
                           matched |-> Some(sha256_sums)]

-----------------------------------------------------------------------------
(* Inputs of _get_latest_version *)

MaxLinks == 3

Hrefs == {"240101/", "240601/", "240601/beta", "24010/", "notaversion/"}
Titles == {"v2", "v10", ""}

OptStr(S) == {None} \cup {Some(x) : x \in S}

Links == [href : OptStr(Hrefs), title : OptStr(Titles)]

Listings == UNION {[1..n -> Links] : n \in 0..MaxLinks}

-----------------------------------------------------------------------------
(* Inputs of _parse_sha256_hash *)

MaxItems == 6

BR == "<br>"
Tokens == {"abc123", "xyz999", "file.iso"}
Separators == {" ", " \t"}
LineEnds == {"\n", "\r\n"}
FileNames == {"file.iso", "FILE.ISO"}

RECURSIVE Render(_, _, _)
\* The manifest text of a sequence of tokens and line ends: consecutive
\* tokens are separated by sep, a line end is written as br.
Render(items, sep, br) ==
    IF items = <<>> THEN ""
    ELSE LET x == Head(items)
             rest == Tail(items)
         IN  IF x = BR THEN br \o Render(rest, sep, br)
             ELSE IF rest # <<>> /\ Head(rest) # BR
                  THEN x \o sep \o Render(rest, sep, br)
                  ELSE x \o Render(rest, sep, br)

ItemSeqs == UNION {[1..n -> Tokens \cup {BR}] : n \in 0..MaxItems}

ManifestTexts ==
    {Render(items, sep, br) : items \in ItemSeqs, sep \in Separators, br \in LineEnds}

-----------------------------------------------------------------------------
(* The specification of the calls of _parse_sha256_hash *)

\* No call made yet.  A call records its method (op), its object, its
\* outcome, the runs of the body of _get_latest_version it caused (ran), the
\* URLs it sent a GET to, and for check_integrity the status and body of the
\* manifest response, the text handed to _parse_sha256_hash (matched) and
\* the hash of the local file.
NoCall ==
    [op |-> "none", inst |-> "", out |-> Pending, ran |-> 0, gets |-> <<>>,
     matched |-> None, status |-> None, body |-> None, file_hash |-> ""]

NoResolver ==
    /\ inst = [i \in Instances |-> NoInstance]
    /\ linkCache = [i \in Instances |-> None]
    /\ versionCache = [i \in Instances |-> None]
    /\ netlog = [i \in Instances |-> {}]
    /\ last = NoCall

InitParse ==
    /\ NoResolver
    /\ listing = <<>>
    /\ extracted = Pending
    /\ hashText \in ManifestTexts
    /\ fileName \in FileNames
    /\ parsed = Pending

Parse ==
    /\ parsed = Pending
    /\ parsed' = _parse_sha256_hash(hashText, fileName)
    /\ UNCHANGED <<hashText, fileName, listing, extracted>>
    /\ UNCHANGED resolver

NextParse == Parse

SpecParse == InitParse /\ [][NextParse]_vars

-----------------------------------------------------------------------------
(* The specification of the calls of _get_latest_version *)

InitExtract ==
    /\ NoResolver
    /\ listing \in Listings
    /\ extracted = Pending
    /\ hashText = ""
    /\ fileName = ""
    /\ parsed = Pending

Extract ==
    /\ extracted = Pending
    /\ extracted' = _get_latest_version(listing)
    /\ UNCHANGED <<listing, hashText, fileName, parsed>>
    /\ UNCHANGED resolver

NextExtract == Extract

SpecExtract == InitExtract /\ [][NextExtract]_vars

-----------------------------------------------------------------------------
(* The specification of the CachyOS objects *)

EditionArgs == {"Desktop", "handheld", "server"}
Statuses == {200, 204, 404}

Link(h, t) == [href |-> Some(h), title |-> Some(t)]

\* The listing pages the server answers with.
Pages ==
    { <<Link("240101/", "v10"), Link("240601/", "v2"), Link("notaversion/", "v2")>>,
      <<Link("240101/", "v10")>>,
      <<Link("notaversion/", "v2")>>,
      <<[href |-> Some("240601/"), title |-> None]>>,
      <<Link("240601/", "")>> }

ListingResponses == [status : Statuses, links : Pages]

FileHashes == {"abc123", "xyz999"}

\* The bodies the server answers the manifest GET with.
ManifestBodies ==
    { "<html>404 Not Found</html>",
      "abc123  " \o IsoName("desktop", Some("v2")) \o "\n",
      "abc123  " \o IsoName("handheld", Some("v10")) \o "\n" }

ManifestResponses == [status : {200, 404}, text : ManifestBodies]

Range(f) == {f[x] : x \in DOMAIN f}

Init ==
    /\ NoResolver
    /\ listing = <<>>
    /\ extracted = Pending
    /\ hashText = ""
    /\ fileName = ""
    /\ parsed = Pending

\* CachyOS(folder_path, edition)
Construct(i) ==
    /\ inst[i].status = "none"
    /\ \E e \in EditionArgs, r \in ListingResponses :
          \E c \in {CachyOS_init(e, r)} :
              /\ inst' = [inst EXCEPT ![i] = c.self]
              /\ netlog' = [netlog EXCEPT ![i] = @ \cup Range(c.gets)]
              /\ last' = [NoCall EXCEPT
                             !.op = "init", !.inst = i, !.gets = c.gets,
                             !.out = IF c.self.status = "failed"
                                     THEN Raise(c.self.error, "")
                                     ELSE Return(i)]
    /\ UNCHANGED <<linkCache, versionCache>>
    /\ UNCHANGED functions

\* self._get_download_link() on a constructed object
GetDownloadLink(i) ==
    /\ inst[i].status = "ready"
    /\ \E d \in {CachedDownloadLink(i, linkCache, versionCache)} :
           /\ linkCache' = d.lc
           /\ versionCache' = d.vc
           /\ last' = [NoCall EXCEPT !.op = "link", !.inst = i, !.out = d.out,
                                     !.ran = d.ran]
    /\ UNCHANGED <<inst, netlog>>
    /\ UNCHANGED functions

\* self._get_latest_version() on a constructed object
GetLatestVersion(i) ==
    /\ inst[i].status = "ready"
    /\ \E v \in {CachedLatestVersion(i, versionCache)} :
           /\ versionCache' = v.vc
           /\ last' = [NoCall EXCEPT !.op = "version", !.inst = i, !.out = v.out,
                                     !.ran = v.ran]
    /\ UNCHANGED <<inst, linkCache, netlog>>
    /\ UNCHANGED functions

\* self.check_integrity() on a constructed object: the server's answer to
\* the manifest GET and the hash of the local file are inputs.
CheckIntegrity(i) ==
    /\ inst[i].status = "ready"
    /\ \E r \in ManifestResponses, h \in FileHashes :
          \E c \in {check_integrity(i, r, h)} :
              /\ linkCache' = c.lc
              /\ versionCache' = c.vc
              /\ netlog' = [netlog EXCEPT ![i] = @ \cup Range(c.gets)]
              /\ last' = [op |-> "integrity", inst |-> i, out |-> c.out,
                          ran |-> c.ran, gets |-> c.gets, matched |-> c.matched,
                          status |-> IF c.gets = <<>> THEN None ELSE Some(r.status),
                          body |-> IF c.gets = <<>> THEN None ELSE Some(r.text),
                          file_hash |-> h]
    /\ UNCHANGED inst
    /\ UNCHANGED functions

Next ==
    \E i \in Instances :
        \/ Construct(i)
        \/ GetDownloadLink(i)
        \/ GetLatestVersion(i)
        \/ CheckIntegrity(i)

Spec == Init /\ [][Next]_vars

-----------------------------------------------------------------------------
(* Properties of the CachyOS objects, checked under Spec *)

IsSuccess(status) == status \in 200..299

ListingUrl(edition) == "https://cdn.cachyos.org/ISO/" \o edition

\* C3: an edition whose lowercase form is not desktop or handheld fails
\* the construction with ValueError and the object never sends a GET; an
\* edition that is desktop or handheld up to letter case passes the
\* validation and is stored in lowercase.
C3_InvalidEditionNoFetch ==
    \A i \in Instances :
        inst[i].status # "none"
        => IF Lower(inst[i].arg) \in {"desktop", "handheld"}
           THEN /\ inst[i].edition = Lower(inst[i].arg)
                /\ inst[i].error # "ValueError"
                /\ ListingUrl(inst[i].edition) \in netlog[i]
           ELSE /\ inst[i].status = "failed"
                /\ inst[i].error = "ValueError"
                /\ netlog[i] = {}
                /\ (last.inst = i => last.op = "init" /\ last.gets = <<>>)

\* C3 witness: one construction has failed on its edition, another has
\* accepted an edition written with a capital letter.
C3_Witness ==
    \E i, j \in Instances :
        /\ inst[i].error = "ValueError"
        /\ inst[j].status = "ready"
        /\ inst[j].arg # inst[j].edition

\* C4: an object is ready only if its listing GET returned a success
\* status; after a non-success status the construction has failed with an
\* error, the page is not parsed, and no method has run on the object.
C4_ReadyOnlyAfterSuccess ==
    /\ \A i \in Instances :
          /\ inst[i].status = "ready"
             => inst[i].response # None /\ IsSuccess(inst[i].response[1])
          /\ (inst[i].response # None /\ ~IsSuccess(inst[i].response[1]))
             => /\ inst[i].status = "failed"
                /\ inst[i].error # ""
                /\ inst[i].page = None
                /\ linkCache[i] = None
                /\ versionCache[i] = None
                /\ netlog[i] = {ListingUrl(inst[i].edition)}
                /\ (last.inst = i => last.op = "init" /\ last.out.kind = "raise")
    /\ last.op \in {"link", "version", "integrity"}
       => inst[last.inst].status = "ready"

\* C4 witness: one construction has failed on a 404 listing while a method
\* has run on another, ready object.
C4_Witness ==
    \E i, j \in Instances :
        /\ inst[i].status = "failed"
        /\ inst[i].response = Some(404)
        /\ inst[j].status = "ready"
        /\ last.inst = j
        /\ last.op = "integrity"

\* The link of an object, derived from its own edition and listing.
OwnLink(i) ==
    LinkOf(inst[i].edition, _get_latest_version(inst[i].page[1]).value[1])

\* C5: once _get_download_link has returned on an object, every later call
\* on that object, the one inside check_integrity included, uses the same
\* URL without running the version extraction again, the cached URL never
\* changes, and every URL returned for an object is the one derived from
\* that object's own edition and listing.
C5_Memoized ==
    [][\A i \in Instances :
          /\ linkCache[i] # None
             => /\ linkCache'[i] = linkCache[i]
                /\ (last'.inst = i /\ last'.op = "link")
                   => last'.out = Hit(linkCache[i]) /\ last'.ran = 0
                /\ (last'.inst = i /\ last'.op = "integrity")
                   => /\ last'.gets = <<linkCache[i][1] \o ".sha256">>
                      /\ last'.ran = 0
          /\ (last'.inst = i /\ last'.op = "link" /\ last'.out.kind = "return")
             => last'.out.value[1] = OwnLink(i)
      ]_vars

\* C5 witness: a call of _get_download_link answered from the cache while
\* another object holds a different cached link.
C5_Witness ==
    /\ last.op = "link"
    /\ last.ran = 0
    /\ last.out.kind = "return"
    /\ \E j \in Instances :
          /\ j # last.inst
          /\ linkCache[j] # None
          /\ linkCache[j] # linkCache[last.inst]

\* C7: check_integrity returns whether the hash of the local file is the
\* hash _parse_sha256_hash finds in the manifest for the file name of the
\* resolved version; a failed version resolution propagates with no
\* manifest GET sent, and a failed manifest lookup propagates.
C7_IntegrityIff ==
    last.op = "integrity"
    => LET i == last.inst
           ver == _get_latest_version(inst[i].page[1])
       IN  IF ver.kind = "raise"
           THEN last.out = ver /\ last.gets = <<>>
           ELSE /\ last.body # None
                /\ LET name == "cachyos-" \o inst[i].edition \o "-linux-"
                                   \o Fmt(ver.value[1]) \o ".iso"
                       found == _parse_sha256_hash(last.body[1], name)
                   IN  IF found.kind = "raise"
                       THEN last.out = found
                       ELSE /\ last.out.kind = "return"
                            /\ last.out.value[1] \in BOOLEAN
                            /\ last.out.value[1] <=> (last.file_hash = found.value[1])

\* C7 witness: a check that returned true.
C7_Witness ==
    /\ last.op = "integrity"
    /\ last.out.kind = "return"
    /\ last.out.value[1] = TRUE

\* C8: when the manifest GET returns a non-success status, check_integrity
\* raises an unreachable-resource error and the body is not handed to
\* _parse_sha256_hash.
C8_FailedFetchRaises ==
    (/\ last.op = "integrity"
     /\ last.status # None
     /\ ~IsSuccess(last.status[1]))
    => /\ last.out.kind = "raise"
       /\ last.out.exc = "ConnectionError"
       /\ last.matched = None

\* C10: every URL _get_download_link returns holds, as its version segment
\* and inside its file name, the non-empty title of a link of the listing
\* whose href matches the version pattern, and every hash
\* _parse_sha256_hash returns is a non-empty token.
C10_NoPlaceholder ==
    /\ (last.op = "link" /\ last.out.kind = "return")
       => LET page == inst[last.inst].page[1]
              e == inst[last.inst].edition
          IN  \E k \in 1..Len(page) :
                  /\ page[k].href # None
                  /\ Len(page[k].href[1]) >= 7
                  /\ \A n \in 1..6 :
                        SubSeq(page[k].href[1], n, n)
                            \in {"0", "1", "2", "3", "4", "5", "6", "7", "8", "9"}
                  /\ SubSeq(page[k].href[1], 7, 7) = "/"
                  /\ page[k].title # None
                  /\ page[k].title[1] # ""
                  /\ last.out.value[1] =
                        "https://cdn.cachyos.org/ISO/" \o e \o "/" \o page[k].title[1]
                            \o "/cachyos-" \o e \o "-linux-" \o page[k].title[1]
                            \o ".iso"
    /\ parsed.kind = "return" => parsed.value[1] # ""

-----------------------------------------------------------------------------
(* Properties of _get_latest_version, checked under SpecExtract *)

Digits == {"0", "1", "2", "3", "4", "5", "6", "7", "8", "9"}

\* href begins with six digits followed by a slash.
SixDigitsSlash(href) ==
    /\ Len(href) >= 7
    /\ \A i \in 1..6 : SubSeq(href, i, i) \in Digits
    /\ SubSeq(href, 7, 7) = "/"

\* a comes before b in string order, or is b.
LexLeq(a, b) ==
    \/ a = b
    \/ \E k \in 0..Len(a) :
          /\ k <= Len(b)
          /\ SubSeq(a, 1, k) = SubSeq(b, 1, k)
          /\ \/ k = Len(a) /\ k < Len(b)
             \/ /\ k < Len(a)
                /\ k < Len(b)
                /\ Ord(SubSeq(a, k + 1, k + 1)) < Ord(SubSeq(b, k + 1, k + 1))

IsLexMax(t, S) == t \in S /\ \A u \in S : LexLeq(u, t)

HasBoth(link) == link.href # None /\ link.title # None

\* The titles of the links of l that carry both attributes and whose href
\* matches the version pattern.
MatchingTitles(l) ==
    {l[i].title[1] : i \in {j \in 1..Len(l) : HasBoth(l[j]) /\ SixDigitsSlash(l[j].href[1])}}

Permuted(l, p) == [i \in 1..Len(l) |-> l[p[i]]]

\* C1: on a listing whose links all carry an href and a title and of which
\* at least one href matches the version pattern, _get_latest_version
\* returns the string-order maximum of the titles of the matching links,
\* and returns the same on every permutation of the rows.
C1_LatestIsLexMax ==
    (/\ extracted.kind # "pending"
     /\ \A i \in 1..Len(listing) : HasBoth(listing[i])
     /\ MatchingTitles(listing) # {})
    => /\ extracted.kind = "return"
       /\ extracted.value[1] # None
       /\ IsLexMax(extracted.value[1][1], MatchingTitles(listing))
       /\ \A p \in Permutations(1..Len(listing)) :
             _get_latest_version(Permuted(listing, p)) = extracted

\* C1 witness: three rows, two matching links with different titles and one
\* non-matching link, the greatest title in the first row.
C1_Witness ==
    /\ extracted.kind = "return"
    /\ Len(listing) = 3
    /\ \A i \in 1..3 : HasBoth(listing[i])
    /\ Cardinality(MatchingTitles(listing)) = 2
    /\ \E i \in 1..3 : ~SixDigitsSlash(listing[i].href[1])
    /\ SixDigitsSlash(listing[1].href[1])
    /\ extracted.value[1] = listing[1].title

\* C2: a listing without links raises an error of another kind than
\* VersionNotFoundError, and a listing with links none of which has a
\* matching href raises VersionNotFoundError.
C2_DistinctErrorKinds ==
    extracted.kind # "pending"
    => /\ listing = <<>>
          => extracted.kind = "raise" /\ extracted.exc # "VersionNotFoundError"
       /\ (/\ listing # <<>>
           /\ \A i \in 1..Len(listing) :
                 listing[i].href = None \/ ~SixDigitsSlash(listing[i].href[1]))
          => extracted.kind = "raise" /\ extracted.exc = "VersionNotFoundError"

\* C9: links without an href or without a title are discarded: beside a
\* link with both attributes and a matching href the result is the
\* string-order maximum of the well-formed matching titles, and a listing
\* of attribute-less links only raises VersionNotFoundError.
C9_AttributelessDiscarded ==
    extracted.kind # "pending"
    => /\ (/\ \E i \in 1..Len(listing) : ~HasBoth(listing[i])
           /\ MatchingTitles(listing) # {})
          => /\ extracted.kind = "return"
             /\ extracted.value[1] # None
             /\ IsLexMax(extracted.value[1][1], MatchingTitles(listing))
       /\ (/\ listing # <<>>
           /\ \A i \in 1..Len(listing) : ~HasBoth(listing[i]))
          => extracted.kind = "raise" /\ extracted.exc = "VersionNotFoundError"

-----------------------------------------------------------------------------
(* Properties of _parse_sha256_hash, checked under SpecParse *)

\* The line splits into exactly two tokens, the second being the filename.
Qualifies(line, filename) ==
    Len(Split(line)) = 2 /\ Split(line)[2] = filename

\* C6: _parse_sha256_hash returns the first token of the earliest line that
\* splits into exactly two tokens the second of which is the filename, and
\* raises an error naming the filename when no line does.
C6_FirstQualifyingLine ==
    parsed.kind # "pending"
    => LET lines == SplitLines(hashText)
           Q == {i \in 1..Len(lines) : Qualifies(lines[i], fileName)}
       IN  IF Q = {}
           THEN /\ parsed.kind = "raise"
                /\ parsed.exc = "ValueError"
                /\ \E k \in 0..Len(parsed.msg) :
                      SubSeq(parsed.msg, k + 1, Len(parsed.msg)) = fileName
           ELSE LET first == CHOOSE i \in Q : \A j \in Q : i <= j
                IN  /\ parsed.kind = "return"
                    /\ parsed.value[1] = Split(lines[first])[1]

\* C6 witness: a three-token line that holds the filename as its second
\* token is skipped and the hash of the qualifying line after it returned.
C6_Witness ==
    LET lines == SplitLines(hashText)
    IN  /\ parsed.kind = "return"
        /\ Len(lines) = 2
        /\ Len(Split(lines[1])) = 3
        /\ Split(lines[1])[2] = fileName
        /\ Qualifies(lines[2], fileName)
        /\ Split(lines[1])[1] # Split(lines[2])[1]
        /\ parsed.value[1] = Split(lines[2])[1]

=============================================================================
